---- MODULE Spec2Model ----
(***************************************************************************)
(* Model of src/mig.py: the "Migrate List" button handler and the three    *)
(* functions it calls (get_list_members, create_new_list,                  *)
(* add_members_to_list), run against a remote service that may answer or   *)
(* fail every call.  One action per remote call, each including all the    *)
(* local work the code does up to the next remote call.                    *)
(***************************************************************************)
EXTENDS Naturals, Sequences, FiniteSets, TLC

VARIABLES
    source_handle,   \* form field, line 131
    dest_handle,     \* form field, line 145
    dest_list_purpose, \* form field, line 151
    pc,              \* position of the handler: idle, step1..step5, end, done
    source_client,   \* [me |-> DID of the session, None before login]
    dest_client,     \* [me |-> DID of the session, None before login]
    members_to_add,  \* Optional list: <<>> is None, <<l>> is the list l
    new_list_uri,    \* "None" or the URI returned by create_new_list
    migration_ok,    \* line 177
    members,         \* get_list_members: accumulated DIDs
    cursor,          \* get_list_members: cursor of the next request
    i,               \* add_members_to_list: number of items processed
    success_count,   \* add_members_to_list
    fail_count,      \* add_members_to_list
    srv,             \* the server's pages of the source list, by cursor
    repo,            \* the server's records created during the run, in order
    calls,           \* every remote call issued, in order
    requests,        \* every page request, with the response it got
    sent,            \* the record of the latest create_record call
    sleeps,          \* every time.sleep, in order
    ui               \* every message shown to the operator, in order

vars == <<source_handle, dest_handle, dest_list_purpose, pc, source_client,
          dest_client, members_to_add, new_list_uri, migration_ok, members,
          cursor, i, success_count, fail_count, srv, repo, calls, requests,
          sent, sleeps, ui>>

-----------------------------------------------------------------------------
(* Bounds of the model *)

\* the source list holds at most this many members in total
MaxMembers == 3
\* a page of the server holds at most this many members (at most PageLimit)
MaxPageLen == 2

(* Program constants *)

\* limit=100 of the page request
PageLimit == 100
\* time.sleep(0.1) between two pages, in milliseconds
PagePauseMs == 100
\* time.sleep(0.2) after a create call that returned, in milliseconds
ShortPauseMs == 200
\* time.sleep(1) after a create call that raised, in milliseconds
LongPauseMs == 1000

-----------------------------------------------------------------------------
(* Values *)

None == "None"
EmptyCursor == ""
Cursors == {"c1", "c2"}
CursorValues == {None, EmptyCursor} \cup Cursors

Handles == {"alice.bsky.social", "bob.bsky.social"}
\* the accounts a source list may hold
DIDs == {"D1", "D2", "D3"}
\* the accounts on the pages of a server whose pages are all fixed beforehand
ListerDIDs == {"D1", "D2"}
ErrKinds == {"AtProtocolError", "Exception"}

\* the "Source List AT URI" form field, filled in
SourceListUri == "at://D3/app.bsky.graph.list/source"

ListCollection == "app.bsky.graph.list"
ListitemCollection == "app.bsky.graph.listitem"

\* the DID the service binds to a handle at login
DidOf(handle) ==
    IF handle = "alice.bsky.social" THEN "did:plc:alice" ELSE "did:plc:bob"

\* the URI the service gives the list record it creates in a repository
ListUri(did) ==
    IF did = "did:plc:alice" THEN "at://did:plc:alice/app.bsky.graph.list/new"
                             ELSE "at://did:plc:bob/app.bsky.graph.list/new"

SeqUpTo(S, n) == UNION {[1..k -> S] : k \in 0..n}

\* Python truthiness of an Optional[str]
Truthy(s) == s \notin {None, ""}

\* Optional list: None is <<>>, the list l is <<l>>
NoList == <<>>
Some(l) == <<l>>
IsNone(o) == o = <<>>
\* Python truthiness of an Optional[list]
TruthyList(o) == o # <<>> /\ o[1] # <<>>

Page(items, c) == [items |-> items, cursor |-> c]
PagesOver(dids) ==
    {Page(it, c) : it \in SeqUpTo(dids, MaxPageLen), c \in CursorValues}
\* the answers of a server that is not fixed beforehand: any page, with no
\* cursor, an empty one, or a cursor to go on with
AnyPage ==
    {Page(it, c) : it \in SeqUpTo(DIDs, MaxPageLen),
                   c \in {None, EmptyCursor, "c1"}}

\* a remote call: what was sent, whether it returned (ok), the URI it returned
\* (ret) and the number of items of the page it returned (n)
Call(op, client, repo_, collection, list, subject, ok, ret, n) ==
    [op |-> op, client |-> client, repo |-> repo_, collection |-> collection,
     list |-> list, subject |-> subject, ok |-> ok, ret |-> ret, n |-> n]

\* a message to the operator: its kind, the stage or member it names, numbers
Ev(ev, stage, a, b) == [ev |-> ev, stage |-> stage, a |-> a, b |-> b]

\* a page request: the list, the page size and the cursor it carried, whether
\* it returned, and the page it returned (an empty page if it raised)
PageRequest(list, limit, c, ok, p) ==
    [list |-> list, limit |-> limit, cursor |-> c, ok |-> ok,
     items |-> p.items, next |-> p.cursor]

\* a time.sleep: its length and the number of remote calls issued before it
Sleep(ms, after) == [ms |-> ms, after |-> after]

\* options of the "New List Purpose" selectbox
PurposeOptions == {"curatelist", "modlist"}

\* `index=0`: the option the selectbox shows selected
DefaultPurpose == "curatelist"

PurposePrefix == "app.bsky.graph.defs#"

\* str.startswith
StartsWith(s, p) == Len(s) >= Len(p) /\ SubSeq(s, 1, Len(p)) = p

\* str.replace with a non-empty old: every occurrence, left to right, not
\* overlapping
RECURSIVE Replace(_, _, _)
Replace(s, old, new) ==
    LET n == Len(s)
        m == Len(old)
        hits == {k \in 1..(n - m + 1) : SubSeq(s, k, k + m - 1) = old}
    IN  IF m = 0 \/ hits = {} THEN s
        ELSE LET first == CHOOSE k \in hits : \A h \in hits : k <= h
             IN  SubSeq(s, 1, first - 1) \o new
                 \o Replace(SubSeq(s, first + m, n), old, new)

\* the readings datetime.now(timezone.utc) may give: the date and time to the
\* second, and the microsecond
ClockMicroseconds == {0, 123456}
Clock ==
    {[base |-> "2026-11-05T08:48:40", microsecond |-> us] :
        us \in ClockMicroseconds}

Digit(d) == SubSeq("0123456789", d + 1, d + 1)

\* the microsecond as datetime.isoformat writes it: six digits
Digits6(us) ==
    Digit((us \div 100000) % 10) \o Digit((us \div 10000) % 10)
    \o Digit((us \div 1000) % 10) \o Digit((us \div 100) % 10)
    \o Digit((us \div 10) % 10) \o Digit(us % 10)

\* datetime.isoformat() of a UTC reading: the fraction is written unless the
\* microsecond is 0
IsoFormat(t) ==
    t.base \o (IF t.microsecond = 0 THEN "" ELSE "." \o Digits6(t.microsecond))
           \o "+00:00"

\* `datetime.now(timezone.utc).isoformat().replace("+00:00", "Z")`
CreatedAt(t) == Replace(IsoFormat(t), "+00:00", "Z")

\* no create_record call yet
NoRecord == [type |-> "none", purpose |-> "-", subject |-> "-", list |-> "-",
             createdAt |-> "-"]

RECURSIVE Cat(_)
Cat(ss) == IF ss = <<>> THEN <<>> ELSE Head(ss) \o Cat(Tail(ss))

-----------------------------------------------------------------------------
(* The handler *)

\* `if not (source_handle and ... and dest_list_purpose)`: the two handles
\* stand for the required fields, the others are taken as filled in
FieldsFilled == source_handle # "" /\ dest_handle # ""

Init ==
    /\ source_handle \in {"", "alice.bsky.social"}
    /\ dest_handle \in {""} \cup Handles
    /\ dest_list_purpose = DefaultPurpose
    /\ pc = "idle"
    /\ source_client = [me |-> None]
    /\ dest_client = [me |-> None]
    /\ members_to_add = NoList
    /\ new_list_uri = None
    /\ migration_ok = TRUE
    /\ members = <<>>
    /\ cursor = None
    /\ i = 0
    /\ success_count = 0
    /\ fail_count = 0
    /\ srv = <<>>
    /\ repo = <<>>
    /\ calls = <<>>
    /\ requests = <<>>
    /\ sent = NoRecord
    /\ sleeps = <<>>
    /\ ui = <<>>

MigrateList ==
    /\ pc = "idle"
    /\ IF FieldsFilled
       THEN /\ pc' = "step1"
            /\ ui' = ui
       ELSE /\ pc' = "done"
            /\ ui' = Append(ui, Ev("error", "validation", 0, 0))
    /\ UNCHANGED <<source_handle, dest_handle, dest_list_purpose,
                   source_client, dest_client,
                   members_to_add, new_list_uri, migration_ok, members,
                   cursor, i, success_count, fail_count, srv, repo, calls, sent,
                   sleeps, requests>>

ClientOf(name) == IF name = "source" THEN source_client ELSE dest_client

\* faulty variants: a step that is entered whatever the earlier steps did
Step3Guard_Always == TRUE
Step4Guard_Always == TRUE
\* faulty variant: step 5 entered without looking at migration_ok and new_list_uri
Step5Guard_MembersOnly == TruthyList(members_to_add)

\* faulty variant: no list is created for an empty source list
Step4Guard_NonEmpty == migration_ok /\ TruthyList(members_to_add)

\* the `if migration_ok` in front of steps 2, 3 and 4
Step2Guard == migration_ok
Step3Guard == migration_ok
Step4Guard == migration_ok
\* `if migration_ok and members_to_add and new_list_uri`
Step5Guard ==
    migration_ok /\ TruthyList(members_to_add) /\ Truthy(new_list_uri)

StepGuard(p) ==
    CASE p = "step2" -> Step2Guard
      [] p = "step3" -> Step3Guard
      [] p = "step4" -> Step4Guard
      [] p = "step5" -> Step5Guard \/ migration_ok
      [] OTHER -> TRUE

NextPc(p) ==
    CASE p = "step1" -> "step2"
      [] p = "step2" -> "step3"
      [] p = "step3" -> "step4"
      [] p = "step4" -> "step5"
      [] OTHER -> "end"

(* 1. Login to Source Account *)

LoginSource ==
    /\ pc = "step1"
    /\ calls' = Append(calls, Call("login", "source", "-", "-", "-", "-", TRUE, "-", 0))
    /\ source_client' = [me |-> DidOf(source_handle)]
    /\ ui' = Append(ui, Ev("login_ok", "A", 0, 0))
    /\ pc' = NextPc(pc)
    /\ UNCHANGED <<source_handle, dest_handle, dest_list_purpose,
                   dest_client, members_to_add,
                   new_list_uri, migration_ok, members, cursor, i,
                   success_count, fail_count, srv, repo, sent,
                   sleeps, requests>>

LoginSourceFail ==
    /\ pc = "step1"
    /\ calls' = Append(calls, Call("login", "source", "-", "-", "-", "-", FALSE, "-", 0))
    /\ ui' = Append(ui, Ev("error", "login_a", 0, 0))
    /\ migration_ok' = FALSE
    /\ pc' = NextPc(pc)
    /\ UNCHANGED <<source_handle, dest_handle, dest_list_purpose,
                   source_client, dest_client,
                   members_to_add, new_list_uri, members, cursor, i,
                   success_count, fail_count, srv, repo, sent,
                   sleeps, requests>>

(* 2. Fetch Members from Source List: get_list_members(source_client, ...) *)

\* the client the handler passes to get_list_members
ListerClient == "source"

\* faulty variant: every request asks for the first page
RequestCursor_None == None

\* `cursor=cursor` of the page request
RequestCursor == cursor

\* the pages the server may answer a request carrying cursor c with
ServerPages(c) ==
    IF c \in DOMAIN srv THEN {srv[c]} ELSE AnyPage

\* faulty variant: the loop does not stop on an empty page
EmptyPageBreaks_Never(p) == FALSE

\* `if not response or not response.items: break`
EmptyPageBreaks(p) == p.items = <<>>

\* faulty variant: the page replaces the accumulated members
MembersAfter_Overwrite(ms, p) == p.items

\* `for item in response.items: members.append(item.subject.did)`
MembersAfter(ms, p) == ms \o p.items

\* `cursor = response.cursor`
CursorAfter(p) == p.cursor

\* faulty variant: the loop does not stop on a missing cursor
NoCursorBreaks_Never(c) == FALSE

\* `if not cursor: break`
NoCursorBreaks(c) == ~Truthy(c)

\* `except AtProtocolError` and `except Exception` of get_list_members
FetchErrorCaught(kind) == kind \in {"AtProtocolError", "Exception"}

\* faulty variant: the except clauses return the members accumulated so far
FetchFailResult_Partial(ms) == Some(ms)

\* what get_list_members returns from its except clauses
FetchFailResult(ms) == NoList

FetchPage ==
    /\ pc = "step2"
    /\ Step2Guard
    /\ \E p \in ServerPages(RequestCursor) :
         /\ Len(members) + Len(p.items) <= MaxMembers
         /\ calls' = Append(calls, Call("get_list", ListerClient, "-", "-",
                                        SourceListUri, "-", TRUE, "-",
                                        Len(p.items)))
         /\ requests' = Append(requests,
                               PageRequest(SourceListUri, PageLimit,
                                           RequestCursor, TRUE, p))
         /\ IF EmptyPageBreaks(p)
            THEN \* break; return members
                 /\ UNCHANGED <<members, cursor, sleeps>>
                 /\ members_to_add' = Some(members)
                 /\ ui' = Append(ui, Ev("found", "fetch", Len(members), 0))
                 /\ pc' = NextPc(pc)
            ELSE /\ members' = MembersAfter(members, p)
                 /\ cursor' = CursorAfter(p)
                 /\ IF NoCursorBreaks(cursor')
                    THEN \* break; return members
                         /\ UNCHANGED sleeps
                         /\ members_to_add' = Some(members')
                         /\ ui' = Append(ui, Ev("found", "fetch", Len(members'), 0))
                         /\ pc' = NextPc(pc)
                    ELSE \* time.sleep(0.1); next iteration
                         /\ sleeps' = Append(sleeps,
                                             Sleep(PagePauseMs, Len(calls')))
                         /\ UNCHANGED <<members_to_add, ui, pc>>
    /\ UNCHANGED <<source_handle, dest_handle, dest_list_purpose,
                   source_client, dest_client,
                   new_list_uri, migration_ok, i, success_count, fail_count,
                   srv, repo, sent>>

FetchFailStep(kind) ==
    /\ pc = "step2"
    /\ Step2Guard
    /\ calls' = Append(calls, Call("get_list", ListerClient, "-", "-",
                                   SourceListUri, "-", FALSE, "-", 0))
    /\ requests' = Append(requests,
                          PageRequest(SourceListUri, PageLimit, RequestCursor,
                                      FALSE, Page(<<>>, None)))
    /\ IF FetchErrorCaught(kind)
       THEN \* st.error(...); return None; then lines 199-205 of the handler
            /\ members_to_add' = FetchFailResult(members)
            /\ IF ~IsNone(members_to_add')
               THEN /\ ui' = ui \o <<Ev("error", "fetch", 0, 0),
                                     Ev("found", "fetch",
                                        Len(members_to_add'[1]), 0)>>
                    /\ UNCHANGED migration_ok
               ELSE /\ ui' = ui \o <<Ev("error", "fetch", 0, 0),
                                     Ev("error", "fetch_failed", 0, 0)>>
                    /\ migration_ok' = FALSE
            /\ pc' = NextPc(pc)
       ELSE \* the exception leaves the handler
            /\ pc' = "crashed"
            /\ UNCHANGED <<members_to_add, ui, migration_ok>>
    /\ UNCHANGED <<source_handle, dest_handle, dest_list_purpose,
                   source_client, dest_client,
                   new_list_uri, members, cursor, i, success_count,
                   fail_count, srv, repo, sent,
                   sleeps>>

FetchFail == \E kind \in ErrKinds : FetchFailStep(kind)

(* 3. Login to Destination Account *)

LoginDest ==
    /\ pc = "step3"
    /\ Step3Guard
    /\ calls' = Append(calls, Call("login", "dest", "-", "-", "-", "-", TRUE, "-", 0))
    /\ dest_client' = [me |-> DidOf(dest_handle)]
    /\ ui' = Append(ui, Ev("login_ok", "B", 0, 0))
    /\ pc' = NextPc(pc)
    /\ UNCHANGED <<source_handle, dest_handle, dest_list_purpose,
                   source_client, members_to_add,
                   new_list_uri, migration_ok, members, cursor, i,
                   success_count, fail_count, srv, repo, sent,
                   sleeps, requests>>

LoginDestFail ==
    /\ pc = "step3"
    /\ Step3Guard
    /\ calls' = Append(calls, Call("login", "dest", "-", "-", "-", "-", FALSE, "-", 0))
    /\ ui' = Append(ui, Ev("error", "login_b", 0, 0))
    /\ migration_ok' = FALSE
    /\ pc' = NextPc(pc)
    /\ UNCHANGED <<source_handle, dest_handle, dest_list_purpose,
                   source_client, dest_client,
                   members_to_add, new_list_uri, members, cursor, i,
                   success_count, fail_count, srv, repo, sent,
                   sleeps, requests>>

(* 4. Create New List on Destination Account: create_new_list(dest_client, ...) *)

\* faulty variant: the source client handed to create_new_list
CreateListClient_Source == "source"

\* the client the handler passes to create_new_list
CreateListClient == "dest"

\* `repo=client.me.did` of create_new_list
CreateListRepo == ClientOf(CreateListClient).me

\* faulty variant: the prefix is put in front of every purpose
NormalizePurpose_Always(purpose) == PurposePrefix \o purpose

\* `if not purpose.startswith("app.bsky.graph.defs#"): purpose = f"...#{purpose}"`
NormalizePurpose(purpose) ==
    IF ~StartsWith(purpose, PurposePrefix)
    THEN PurposePrefix \o purpose
    ELSE purpose

\* `models.AppBskyGraphList.Record(...)`; name and description are passed on
\* as given and are left out
ListRecord(purpose, now) ==
    [type |-> "list", purpose |-> NormalizePurpose(purpose), subject |-> "-",
     list |-> "-", createdAt |-> CreatedAt(now)]

CreateList ==
    /\ pc = "step4"
    /\ Step4Guard
    /\ calls' = Append(calls, Call("create_record", CreateListClient,
                                   CreateListRepo, ListCollection, "-", "-",
                                   TRUE, ListUri(CreateListRepo), 0))
    /\ repo' = Append(repo, [repo |-> CreateListRepo,
                             collection |-> ListCollection,
                             uri |-> ListUri(CreateListRepo),
                             list |-> "-", subject |-> "-"])
    /\ \E now \in Clock : sent' = ListRecord(dest_list_purpose, now)
    /\ new_list_uri' = ListUri(CreateListRepo)
    /\ ui' = ui \o <<Ev("list_created", new_list_uri', 0, 0)>>
    /\ pc' = NextPc(pc)
    /\ UNCHANGED <<source_handle, dest_handle, dest_list_purpose,
                   source_client, dest_client,
                   members_to_add, migration_ok, members, cursor, i,
                   success_count, fail_count, srv, sleeps, requests>>

CreateListFail ==
    /\ pc = "step4"
    /\ Step4Guard
    /\ calls' = Append(calls, Call("create_record", CreateListClient,
                                   CreateListRepo, ListCollection, "-", "-",
                                   FALSE, "-", 0))
    /\ \E now \in Clock : sent' = ListRecord(dest_list_purpose, now)
    /\ new_list_uri' = None
    /\ ui' = ui \o <<Ev("error", "create", 0, 0),
                     Ev("error", "create_failed", 0, 0)>>
    /\ migration_ok' = FALSE
    /\ pc' = NextPc(pc)
    /\ UNCHANGED <<source_handle, dest_handle, dest_list_purpose,
                   source_client, dest_client,
                   members_to_add, members, cursor, i, success_count,
                   fail_count, srv, repo, sleeps, requests>>

(* 5. Add Members to New List: add_members_to_list(dest_client, new_list_uri, *)
(*    members_to_add)                                                         *)

\* faulty variant: the source client handed to add_members_to_list
AddMembersClient_Source == "source"

\* the client the handler passes to add_members_to_list
AddMembersClient == "dest"

\* `repo=client.me.did` of add_members_to_list
ItemRepo == ClientOf(AddMembersClient).me

\* faulty variant: the members are added to the source list
ItemList_Source == SourceListUri

\* `list=list_uri`, the handler passing new_list_uri
ItemList == new_list_uri

\* faulty variant: every record names the first member
ItemSubject_First(ms, k) == ms[1]

\* `for i, member_did in enumerate(members)`: the item of iteration k (1-based)
ItemSubject(ms, k) == ms[k]

\* faulty variant: only protocol errors are caught
ItemErrorCaught_ProtocolOnly(kind) == kind = "AtProtocolError"

\* `except AtProtocolError` and `except Exception` of the loop body
ItemErrorCaught(kind) == kind \in {"AtProtocolError", "Exception"}

\* `success_count += 1` after a create call that returned
SuccessAfter(ok, sc) == IF ok THEN sc + 1 ELSE sc

\* faulty variant: the second except clause does not count the failure
FailAfter_ProtocolOnly(ok, kind, fc) ==
    IF ~ok /\ kind = "AtProtocolError" THEN fc + 1 ELSE fc

\* `fail_count += 1` in both except clauses
FailAfter(ok, kind, fc) == IF ok THEN fc ELSE fc + 1

\* `models.AppBskyGraphListitem.Record(subject=..., list=..., createdAt=...)`
ItemRecord(subject, list, now) ==
    [type |-> "listitem", purpose |-> "-", subject |-> subject, list |-> list,
     createdAt |-> CreatedAt(now)]

\* faulty variant: a member whose call raised is tried again
IndexAfter_RetryFailed(ok, k) == IF ok THEN k + 1 ELSE k

\* the for loop moves on to the next member, whatever the call did
IndexAfter(ok, k) == k + 1

\* faulty variant: only a protocol error gets the long pause
PauseAfter_ProtocolOnly(ok, kind) ==
    IF ok \/ kind # "AtProtocolError" THEN ShortPauseMs ELSE LongPauseMs

\* time.sleep(0.2) after the call returned, time.sleep(1) in both except
\* clauses
PauseAfter(ok, kind) == IF ok THEN ShortPauseMs ELSE LongPauseMs

\* st.warning(...) naming the member, in both except clauses
WarningsFor(ok, kind, member_did) ==
    IF ok THEN <<>> ELSE <<Ev("warning", member_did, 0, 0)>>

\* faulty variant: the update carries the index, not the number processed
ProgressUpdate_Index(k, total, fc) ==
    [ev |-> "progress", stage |-> "-", a |-> k, b |-> total, c |-> fc]

\* `finally`: progress_bar.progress((i + 1) / total, text=...) with i + 1,
\* total and fail_count
ProgressUpdate(k, total, fc) ==
    [ev |-> "progress", stage |-> "-", a |-> k + 1, b |-> total, c |-> fc]

AddMemberStep(ok, kind) ==
    LET ms == members_to_add[1]
        total == Len(ms)
        member_did == ItemSubject(ms, i + 1)
        caught == ok \/ ItemErrorCaught(kind)
        sc == SuccessAfter(ok, success_count)
        fc == FailAfter(ok, kind, fail_count)
        last == caught /\ i + 1 = total
    IN  /\ pc = "step5"
        /\ Step5Guard
        /\ i < total
        /\ calls' = Append(calls, Call("create_record", AddMembersClient,
                                       ItemRepo, ListitemCollection, ItemList,
                                       member_did, ok, "-", 0))
        /\ repo' = IF ok
                   THEN Append(repo, [repo |-> ItemRepo,
                                      collection |-> ListitemCollection,
                                      uri |-> "-", list |-> ItemList,
                                      subject |-> member_did])
                   ELSE repo
        /\ success_count' = sc
        /\ fail_count' = IF caught THEN fc ELSE fail_count
        /\ i' = IndexAfter(ok, i)
        /\ \E now \in Clock : sent' = ItemRecord(member_did, ItemList, now)
        /\ sleeps' = IF caught
                     THEN Append(sleeps, Sleep(PauseAfter(ok, kind), Len(calls')))
                     ELSE sleeps
        /\ ui' = ui
                 \o (IF i = 0 THEN <<Ev("info", "start", total, 0)>> ELSE <<>>)
                 \o (IF caught THEN WarningsFor(ok, kind, member_did) ELSE <<>>)
                 \o <<ProgressUpdate(i, total, fail_count')>>
                 \o (IF last THEN <<Ev("finished", "-", sc, fc)>> ELSE <<>>)
        /\ pc' = IF ~caught THEN "crashed" ELSE IF last THEN NextPc(pc) ELSE pc
        /\ UNCHANGED <<source_handle, dest_handle, dest_list_purpose,
                       source_client, dest_client,
                       members_to_add, new_list_uri, migration_ok, members,
                       cursor, srv, requests>>

AddMember == AddMemberStep(TRUE, "-")

AddMemberFail == \E kind \in ErrKinds : AddMemberStep(FALSE, kind)

\* `elif migration_ok:` of step 5
NothingToAdd ==
    /\ pc = "step5"
    /\ ~Step5Guard
    /\ migration_ok
    /\ ui' = Append(ui, Ev("warning", "nothing_to_add", 0, 0))
    /\ pc' = NextPc(pc)
    /\ UNCHANGED <<source_handle, dest_handle, dest_list_purpose,
                   source_client, dest_client,
                   members_to_add, new_list_uri, migration_ok, members,
                   cursor, i, success_count, fail_count, srv, repo, calls, sent,
                   sleeps, requests>>

\* a step whose `if` is false is passed over
Skip ==
    /\ pc \in {"step2", "step3", "step4", "step5"}
    /\ ~StepGuard(pc)
    /\ pc' = NextPc(pc)
    /\ UNCHANGED <<source_handle, dest_handle, dest_list_purpose,
                   source_client, dest_client,
                   members_to_add, new_list_uri, migration_ok, members,
                   cursor, i, success_count, fail_count, srv, repo, calls, ui, sent,
                   sleeps, requests>>

\* `if not migration_ok: st.error("Migration process stopped due to errors.")`
Finish ==
    /\ pc = "end"
    /\ ui' = IF ~migration_ok
             THEN Append(ui, Ev("error", "stopped", 0, 0))
             ELSE ui
    /\ pc' = "done"
    /\ UNCHANGED <<source_handle, dest_handle, dest_list_purpose,
                   source_client, dest_client,
                   members_to_add, new_list_uri, migration_ok, members,
                   cursor, i, success_count, fail_count, srv, repo, calls, sent,
                   sleeps, requests>>

Next ==
    \/ MigrateList
    \/ LoginSource
    \/ LoginSourceFail
    \/ FetchPage
    \/ FetchFail
    \/ LoginDest
    \/ LoginDestFail
    \/ CreateList
    \/ CreateListFail
    \/ AddMember
    \/ AddMemberFail
    \/ NothingToAdd
    \/ Skip
    \/ Finish

Spec == Init /\ [][Next]_vars

-----------------------------------------------------------------------------
(* get_list_members against a server whose pages are fixed: the handler at   *)
(* step 2, the source login done, the server holding one page per cursor.    *)

ListerKeys == {None} \cup Cursors

InitLister ==
    /\ source_handle = "alice.bsky.social"
    /\ dest_handle = "bob.bsky.social"
    /\ dest_list_purpose = DefaultPurpose
    /\ pc = "step2"
    /\ source_client = [me |-> DidOf(source_handle)]
    /\ dest_client = [me |-> None]
    /\ members_to_add = NoList
    /\ new_list_uri = None
    /\ migration_ok = TRUE
    /\ members = <<>>
    /\ cursor = None
    /\ i = 0
    /\ success_count = 0
    /\ fail_count = 0
    /\ srv \in [ListerKeys -> PagesOver(ListerDIDs)]
    /\ repo = <<>>
    /\ calls = <<Call("login", "source", "-", "-", "-", "-", TRUE, "-", 0)>>
    /\ requests = <<>>
    /\ sent = NoRecord
    /\ sleeps = <<>>
    /\ ui = <<Ev("login_ok", "A", 0, 0)>>

NextLister == FetchPage \/ FetchFail

SpecLister == InitLister /\ [][NextLister]_vars

(* The whole handler against a server whose answer to each cursor is fixed
   beforehand; the tables include those that lead back to a cursor already
   handed out *)

FixedPages ==
    {Page(it, c) : it \in SeqUpTo({"D1"}, 1), c \in {None} \cup Cursors}

InitFixed ==
    /\ source_handle = "alice.bsky.social"
    /\ dest_handle = "bob.bsky.social"
    /\ dest_list_purpose = DefaultPurpose
    /\ pc = "idle"
    /\ source_client = [me |-> None]
    /\ dest_client = [me |-> None]
    /\ members_to_add = NoList
    /\ new_list_uri = None
    /\ migration_ok = TRUE
    /\ members = <<>>
    /\ cursor = None
    /\ i = 0
    /\ success_count = 0
    /\ fail_count = 0
    /\ srv \in [ListerKeys -> FixedPages]
    /\ repo = <<>>
    /\ calls = <<>>
    /\ requests = <<>>
    /\ sent = NoRecord
    /\ sleeps = <<>>
    /\ ui = <<>>

SpecFixed == InitFixed /\ [][Next]_vars

(* create_new_list on its own: the destination is logged in, the listing
   is over, and the purpose is any string a caller may pass *)

PurposeInputs ==
    PurposeOptions \cup
    {"", "referencelist", "#curatelist", "app.bsky.graph.defs",
     "app.bsky.graph.defs#", "app.bsky.graph.defs#curatelist",
     "app.bsky.graph.defs#modlist", "App.bsky.graph.defs#curatelist",
     "xapp.bsky.graph.defs#curatelist",
     "app.bsky.graph.defs#app.bsky.graph.defs#modlist"}

InitCreate ==
    /\ source_handle = "alice.bsky.social"
    /\ dest_handle = "bob.bsky.social"
    /\ dest_list_purpose \in PurposeInputs
    /\ pc = "step4"
    /\ source_client = [me |-> DidOf(source_handle)]
    /\ dest_client = [me |-> DidOf(dest_handle)]
    /\ members \in SeqUpTo(ListerDIDs, 1)
    /\ members_to_add = Some(members)
    /\ new_list_uri = None
    /\ migration_ok = TRUE
    /\ cursor = None
    /\ i = 0
    /\ success_count = 0
    /\ fail_count = 0
    /\ srv = <<>>
    /\ repo = <<>>
    /\ calls = <<Call("login", "source", "-", "-", "-", "-", TRUE, "-", 0),
                 Call("get_list", ListerClient, "-", "-", SourceListUri, "-",
                      TRUE, "-", Len(members)),
                 Call("login", "dest", "-", "-", "-", "-", TRUE, "-", 0)>>
    /\ requests = <<PageRequest(SourceListUri, PageLimit, None, TRUE,
                                Page(members, None))>>
    /\ sent = NoRecord
    /\ sleeps = <<>>
    /\ ui = <<Ev("login_ok", "A", 0, 0), Ev("found", "fetch", Len(members), 0),
              Ev("login_ok", "B", 0, 0)>>

NextCreate == CreateList \/ CreateListFail

SpecCreate == InitCreate /\ [][NextCreate]_vars

-----------------------------------------------------------------------------
(* What the claims speak of *)

Range(f) == {f[k] : k \in DOMAIN f}

IsLogin(c, who) == c.op = "login" /\ c.client = who
IsGetList(c) == c.op = "get_list"
IsCreateList(c) == c.op = "create_record" /\ c.collection = ListCollection
IsCreateItem(c) == c.op = "create_record" /\ c.collection = ListitemCollection

\* the membership create calls issued so far, in order
ItemCalls == SelectSeq(calls, IsCreateItem)
\* the page requests issued so far, in order
GetListCalls == SelectSeq(calls, IsGetList)

Stopped == Ev("error", "stopped", 0, 0)
LastUi == ui[Len(ui)]

\* C1: a membership create call is issued only after a list create call on
\* the destination client has returned a list reference, and it references
\* exactly that reference.
C1_ListBeforeItems ==
    \A k \in DOMAIN calls :
        IsCreateItem(calls[k]) =>
            \E j \in 1..(k - 1) :
                /\ IsCreateList(calls[j])
                /\ calls[j].client = "dest"
                /\ calls[j].ok
                /\ Truthy(calls[j].ret)
                /\ calls[k].list = calls[j].ret

C1_Witness ==
    /\ Len(ItemCalls) >= 2
    /\ \E k \in DOMAIN ItemCalls : ~ItemCalls[k].ok

\* C2 as stated: every create call names the destination client's DID as the
\* repository, and never the source identity.
C2_Original ==
    \A k \in DOMAIN calls :
        calls[k].op = "create_record" =>
            /\ calls[k].repo = dest_client.me
            /\ Truthy(calls[k].repo)
            /\ calls[k].repo # source_client.me

\* C2: every record created during a run is created through the destination
\* client in the repository of the destination client's DID; a create call
\* names the source identity only when the operator gave the same account
\* as source and as destination.
C2_DestinationOwnsRecords ==
    \A k \in DOMAIN calls :
        calls[k].op = "create_record" =>
            /\ calls[k].client = "dest"
            /\ calls[k].repo = dest_client.me
            /\ Truthy(calls[k].repo)
            /\ calls[k].repo = DidOf(dest_handle)
            /\ (calls[k].repo = source_client.me => source_handle = dest_handle)

C2_Witness ==
    /\ source_handle # dest_handle
    /\ \E k \in DOMAIN calls : IsCreateList(calls[k]) /\ calls[k].ok
    /\ \E k \in DOMAIN calls : IsCreateItem(calls[k]) /\ calls[k].ok

\* a failed call of steps 1 to 4
FatalFailure(c) ==
    ~c.ok /\ (c.op = "login" \/ IsGetList(c) \/ IsCreateList(c))

\* C3: after a failed source login, page fetch, destination login or list
\* creation no further remote call is issued, and the run ends with the
\* "stopped due to errors" message.
C3_ShortCircuit ==
    \A k \in DOMAIN calls :
        FatalFailure(calls[k]) =>
            /\ k = Len(calls)
            /\ ~migration_ok
            /\ pc = "done" => LastUi = Stopped

C3_Witness ==
    /\ pc = "done"
    /\ calls # <<>>
    /\ IsLogin(calls[Len(calls)], "dest")
    /\ ~calls[Len(calls)].ok
    /\ GetListCalls # <<>>

\* C4 as stated: no page request before both logins succeeded.
C4_Original ==
    \A k \in DOMAIN calls :
        IsGetList(calls[k]) =>
            /\ \E j \in 1..(k - 1) : IsLogin(calls[j], "source") /\ calls[j].ok
            /\ \E j \in 1..(k - 1) : IsLogin(calls[j], "dest") /\ calls[j].ok

\* C4: the steps run in the order source login, Member Lister, destination
\* login, List Creator, Member Replicator: a page request is issued only
\* after the source login succeeded and before any destination login, and
\* the destination login is attempted only after the listing returned its
\* result (the call before it is a page request that succeeded).
C4_StepOrder ==
    /\ \A k \in DOMAIN calls :
        IsGetList(calls[k]) =>
            /\ calls[1] = Call("login", "source", "-", "-", "-", "-", TRUE, "-", 0)
            /\ \A j \in 1..(k - 1) : ~IsLogin(calls[j], "dest")
    /\ \A k \in DOMAIN calls :
        IsLogin(calls[k], "dest") =>
            /\ k > 1
            /\ IsGetList(calls[k - 1])
            /\ calls[k - 1].ok
            /\ ~IsNone(members_to_add)
    /\ \A k \in DOMAIN calls :
        IsCreateList(calls[k]) =>
            k > 1 /\ IsLogin(calls[k - 1], "dest") /\ calls[k - 1].ok
    /\ \A k \in DOMAIN calls :
        IsCreateItem(calls[k]) =>
            k > 1 /\ (IsCreateItem(calls[k - 1])
                      \/ (IsCreateList(calls[k - 1]) /\ calls[k - 1].ok))

C4_Witness ==
    /\ \E k \in DOMAIN calls : IsLogin(calls[k], "dest") /\ calls[k].ok
    /\ Len(GetListCalls) >= 2
    /\ ItemCalls # <<>>

\* get_list_members has returned a list
Returned == ~IsNone(members_to_add)

\* no chain of pages the model can run through is longer: every page before
\* the last holds at least one member
ChainBound == MaxMembers + 1

Items(ch) == [k \in DOMAIN ch |-> ch[k].items]

\* the server's pages from cursor c on, up to the first page with no cursor
RECURSIVE PagesToNoCursor(_, _)
PagesToNoCursor(c, n) ==
    IF n = 0 THEN <<>>
    ELSE LET p == srv[c]
         IN  IF ~Truthy(p.cursor) THEN <<p>>
             ELSE <<p>> \o PagesToNoCursor(p.cursor, n - 1)

\* the server's pages from cursor c on, up to the first page that is empty
\* or has no cursor
RECURSIVE PagesToStop(_, _)
PagesToStop(c, n) ==
    IF n = 0 THEN <<>>
    ELSE LET p == srv[c]
         IN  IF p.items = <<>> \/ ~Truthy(p.cursor) THEN <<p>>
             ELSE <<p>> \o PagesToStop(p.cursor, n - 1)

\* C5 as stated: the result is the concatenation of all the server's pages
\* up to the first page with no cursor, pages with zero items that carry a
\* cursor included, and that page is where the requests stop.
C5_Original ==
    Returned =>
        LET ch == PagesToNoCursor(None, ChainBound)
        IN  (ch # <<>> /\ ~Truthy(ch[Len(ch)].cursor)) =>
                /\ members_to_add[1] = Cat(Items(ch))
                /\ Len(GetListCalls) = Len(ch)

\* C5: get_list_members returns the concatenation, in the server's order, of
\* the server's pages up to and including the first page that is empty or
\* carries no cursor (absent, null or empty), and issues one request per
\* such page and none after it.
C5_Concatenation ==
    Returned =>
        LET ch == PagesToStop(None, ChainBound)
            last == ch[Len(ch)]
        IN  /\ ch # <<>>
            /\ last.items = <<>> \/ ~Truthy(last.cursor)
            /\ members_to_add[1] = Cat(Items(ch))
            /\ Len(GetListCalls) = Len(ch)
            /\ \A k \in DOMAIN GetListCalls :
                   GetListCalls[k].ok /\ GetListCalls[k].n = Len(ch[k].items)

C5_Witness ==
    /\ Returned
    /\ Len(GetListCalls) >= 2
    /\ GetListCalls[1].n >= 1
    /\ GetListCalls[2].n >= 1
    /\ Len(members_to_add[1]) = GetListCalls[1].n + GetListCalls[2].n

\* C6: a failed page fetch, on the first page or later, makes
\* get_list_members return None; an error is shown, the page is not asked
\* for again and no membership create call is ever issued.
C6_NoPartialList ==
    \A k \in DOMAIN calls :
        (IsGetList(calls[k]) /\ ~calls[k].ok) =>
            /\ IsNone(members_to_add)
            /\ Ev("error", "fetch", 0, 0) \in Range(ui)
            /\ \A j \in (k + 1)..Len(calls) : ~IsGetList(calls[j])
            /\ ItemCalls = <<>>
            /\ ~Step5Guard

C6_Witness ==
    /\ pc = "done"
    /\ members # <<>>
    /\ Len(GetListCalls) >= 2
    /\ ~GetListCalls[Len(GetListCalls)].ok

\* C7: after each processed item success_count + fail_count is the number
\* of items processed, and the counts returned sum to the number of members.
C7_CountsSum ==
    /\ success_count + fail_count = i
    /\ i = Len(ItemCalls)
    /\ \A k \in DOMAIN ui :
          ui[k].ev = "finished" =>
              /\ ui[k].a + ui[k].b = Len(members_to_add[1])
              /\ ui[k].a = success_count
              /\ ui[k].b = fail_count

C7_Witness ==
    \E k \in DOMAIN ui : ui[k].ev = "finished" /\ ui[k].a >= 1 /\ ui[k].b >= 1

\* C8: a failed create call for item k does not stop the loop: either the
\* loop is still at work on the next item, or a create call has been issued
\* for every member, in order, and the counts were returned.
C8_FailureDoesNotHalt ==
    \A k \in DOMAIN ItemCalls :
        ~ItemCalls[k].ok =>
            LET ms == members_to_add[1]
            IN  /\ pc # "crashed"
                /\ Len(ItemCalls) <= Len(ms)
                /\ \A j \in DOMAIN ItemCalls : ItemCalls[j].subject = ms[j]
                /\ IF Len(ItemCalls) < Len(ms)
                   THEN pc = "step5" /\ Step5Guard /\ i = Len(ItemCalls)
                   ELSE /\ pc \in {"end", "done"}
                        /\ \E e \in DOMAIN ui : ui[e].ev = "finished"

C8_Witness ==
    /\ pc = "done"
    /\ Len(ItemCalls) = 3
    /\ ~ItemCalls[1].ok
    /\ ItemCalls[2].ok
    /\ ~ItemCalls[3].ok

\* the members of the destination list on the server
DestMembers ==
    LET InList(r) == /\ r.collection = ListitemCollection
                     /\ r.list = new_list_uri
                     /\ r.repo = dest_client.me
        rs == SelectSeq(repo, InList)
    IN  [k \in DOMAIN rs |-> rs[k].subject]

\* the members whose create call succeeded, in input order
Succeeded ==
    LET Ok(k) == ItemCalls[k].ok
        idx == SelectSeq([k \in DOMAIN ItemCalls |-> k], Ok)
    IN  [j \in DOMAIN idx |-> members_to_add[1][idx[j]]]

\* C9: once replication has begun the destination list holds exactly the
\* members whose create call succeeded, and the counts reported at the end
\* are the numbers of succeeded and failed create calls.
C9_Outcome ==
    i > 0 =>
        /\ DestMembers = Succeeded
        /\ \A k \in DOMAIN ui :
              ui[k].ev = "finished" =>
                  /\ Len(ItemCalls) = Len(members_to_add[1])
                  /\ ui[k].a = Len(Succeeded)
                  /\ ui[k].b = Len(ItemCalls) - Len(Succeeded)

C9_Witness ==
    /\ pc = "done"
    /\ members_to_add = Some(<<"D1", "D2", "D3">>)
    /\ Len(ItemCalls) = 3
    /\ ~ItemCalls[2].ok
    /\ DestMembers = <<"D1", "D3">>
    /\ LastUi = Ev("finished", "-", 2, 1)

\* the first page the server returned has zero items
FirstPageEmpty ==
    GetListCalls # <<>> /\ GetListCalls[1].ok /\ GetListCalls[1].n = 0

NothingToAddWarning == Ev("warning", "nothing_to_add", 0, 0)

ListCalls == SelectSeq(calls, IsCreateList)

\* C11: at most one list create call is issued in a run, on the destination
\* client; a run whose logins and listing succeeded issues exactly one, and
\* either the URI it returned is the destination list or the run stops with
\* a creation failure.
C11_OneListCreate ==
    /\ Len(ListCalls) <= 1
    /\ \A k \in DOMAIN ListCalls : ListCalls[k].client = "dest"
    /\ ((\E k \in DOMAIN calls : IsLogin(calls[k], "dest") /\ calls[k].ok)
            /\ pc # "step4") => Len(ListCalls) = 1
    /\ Len(ListCalls) = 1 =>
          IF ListCalls[1].ok
          THEN /\ new_list_uri = ListCalls[1].ret
               /\ migration_ok
               /\ \A k \in DOMAIN ItemCalls :
                      ItemCalls[k].list = ListCalls[1].ret
          ELSE /\ new_list_uri = None
               /\ ~migration_ok
               /\ ItemCalls = <<>>
               /\ Ev("error", "create_failed", 0, 0) \in Range(ui)
               /\ pc = "done" => LastUi = Stopped

C11_Witness ==
    /\ pc = "done"
    /\ Len(ListCalls) = 1
    /\ ListCalls[1].ok
    /\ Len(ItemCalls) >= 2

-----------------------------------------------------------------------------
(* C12: whatever purpose create_new_list is given, the purpose of the record
   it sends starts with "app.bsky.graph.defs#"; "curatelist" is sent as
   "app.bsky.graph.defs#curatelist"; a purpose that already starts with the
   prefix is sent as it is, so normalizing twice changes nothing. *)
C12_PurposeNormalized ==
    sent.type = "list" =>
        /\ StartsWith(sent.purpose, PurposePrefix)
        /\ (dest_list_purpose = "curatelist"
                => sent.purpose = "app.bsky.graph.defs#curatelist")
        /\ (StartsWith(dest_list_purpose, PurposePrefix)
                => sent.purpose = dest_list_purpose)
        /\ NormalizePurpose(sent.purpose) = sent.purpose

C12_Witness ==
    /\ sent.type = "list"
    /\ dest_list_purpose = "app.bsky.graph.defs#modlist"
    /\ sent.purpose = "app.bsky.graph.defs#modlist"
    /\ Len(ListCalls) = 1
    /\ ListCalls[1].ok

-----------------------------------------------------------------------------
(* C13: add_members_to_list emits one progress update after every item,
   whether its create call returned or raised; the k-th update carries k
   items processed, the length of the input as total and the number of
   calls that have failed so far; processed grows by one per update, the
   failure count never drops, and when the loop is over the last update
   has processed = total. *)

IsProgress(e) == e.ev = "progress"

ProgressUpdates == SelectSeq(ui, IsProgress)

FailedAmong(k) == Cardinality({j \in 1..k : ~ItemCalls[j].ok})

C13_ProgressPerItem ==
    LET pr == ProgressUpdates
    IN  /\ Len(pr) = Len(ItemCalls)
        /\ \A k \in 1..Len(pr) :
              /\ pr[k].a = k
              /\ pr[k].b = Len(members_to_add[1])
              /\ pr[k].c = FailedAmong(k)
        /\ \A k \in 1..(Len(pr) - 1) :
              /\ pr[k + 1].a = pr[k].a + 1
              /\ pr[k + 1].c >= pr[k].c
        /\ (pc = "done" /\ Len(pr) > 0 => pr[Len(pr)].a = pr[Len(pr)].b)

C13_Witness ==
    /\ pc = "done"
    /\ Len(ProgressUpdates) = 3
    /\ ItemCalls[1].ok /\ ~ItemCalls[2].ok /\ ItemCalls[3].ok
    /\ ProgressUpdates[3].c = 1

-----------------------------------------------------------------------------
(* C14: add_members_to_list issues its membership create calls one per
   element of its input, duplicates included, in the order of the input:
   the k-th call is for the k-th element, failed or not, so no element is
   tried twice; when the loop is over there are as many calls as
   elements. *)
C14_OneCallPerElement ==
    /\ Len(ItemCalls) = i
    /\ Len(ItemCalls) > 0 =>
          /\ ~IsNone(members_to_add)
          /\ Len(ItemCalls) <= Len(members_to_add[1])
          /\ \A k \in 1..Len(ItemCalls) :
                ItemCalls[k].subject = members_to_add[1][k]
    /\ (pc = "done" /\ Step5Guard) => Len(ItemCalls) = Len(members_to_add[1])

C14_Witness ==
    /\ pc = "done"
    /\ members_to_add = Some(<<"D1", "D1", "D2">>)
    /\ Len(ItemCalls) = 3
    /\ ~ItemCalls[1].ok /\ ItemCalls[2].ok /\ ~ItemCalls[3].ok

-----------------------------------------------------------------------------
(* C15: the first page request of get_list_members carries no cursor, and
   every request asks for the source list with a page size of 100; every
   later request carries the cursor the response before it returned; a
   request is followed by another only if it returned a non-empty page with
   a cursor; and the members gathered are the pages received so far, in
   order. *)
C15_CursorProtocol ==
    /\ Len(requests) = Len(GetListCalls)
    /\ Len(requests) > 0 => requests[1].cursor = None
    /\ \A k \in 1..Len(requests) :
          /\ requests[k].limit = 100
          /\ requests[k].list = SourceListUri
          /\ requests[k].ok /\ requests[k].cursor \in DOMAIN srv =>
                /\ requests[k].items = srv[requests[k].cursor].items
                /\ requests[k].next = srv[requests[k].cursor].cursor
    /\ \A k \in 1..(Len(requests) - 1) :
          /\ requests[k].ok
          /\ requests[k].items # <<>>
          /\ Truthy(requests[k].next)
          /\ requests[k + 1].cursor = requests[k].next
    /\ members = Cat([k \in 1..Len(requests) |-> requests[k].items])

C15_Witness ==
    /\ Returned
    /\ Len(requests) = 3
    /\ requests[2].cursor = "c1"
    /\ requests[3].cursor = "c2"
    /\ requests[3].next = "c1"
    /\ requests[3].items = <<>>
    /\ Len(members) = 3

-----------------------------------------------------------------------------
(* C16: in add_members_to_list every create call is followed, before the
   next one, by exactly one pause: 200 ms if and only if the call returned,
   1000 ms if and only if it raised, whichever error it raised; and the
   warnings emitted name, one each and in order, the members whose calls
   raised. *)

\* the remote calls issued before add_members_to_list started
CallsBeforeItems == Len(calls) - Len(ItemCalls)

IsItemSleep(sl) == sl.after > CallsBeforeItems

ItemSleeps == SelectSeq(sleeps, IsItemSleep)

IsMemberWarning(e) == e.ev = "warning" /\ e.stage # "nothing_to_add"

MemberWarnings == SelectSeq(ui, IsMemberWarning)

IsFailedCall(c) == ~c.ok

FailedItemCalls == SelectSeq(ItemCalls, IsFailedCall)

C16_PauseAfterEachCall ==
    LET ic == ItemCalls
        before == Len(calls) - Len(ic)
        isl == SelectSeq(sleeps, LAMBDA sl : sl.after > before)
        mw == MemberWarnings
        fc == SelectSeq(ic, IsFailedCall)
    IN  /\ Len(isl) = Len(ic)
        /\ \A k \in 1..Len(isl) :
              /\ isl[k].after = before + k
              /\ isl[k].ms \in {200, 1000}
              /\ isl[k].ms = 200 <=> ic[k].ok
              /\ isl[k].ms = 1000 <=> ~ic[k].ok
        /\ Len(mw) = Len(fc)
        /\ \A k \in 1..Len(mw) : mw[k].stage = fc[k].subject

C16_Witness ==
    /\ pc = "done"
    /\ Len(ItemCalls) = 3
    /\ ItemCalls[1].ok /\ ~ItemCalls[2].ok /\ ItemCalls[3].ok
    /\ ItemSleeps[2].ms = 1000
    /\ Len(MemberWarnings) = 1
    /\ MemberWarnings[1].stage = members_to_add[1][2]

-----------------------------------------------------------------------------
(* C17: the createdAt of the list record and of every membership record is
   UTC without a fraction of a second and ends in "Z": whatever the clock
   reads, a non-zero microsecond included, the string has the twenty
   characters of "YYYY-MM-DDTHH:MM:SSZ", no "." and no "+00:00". *)

Contains(s, sub) ==
    \E k \in 1..(Len(s) - Len(sub) + 1) : SubSeq(s, k, k + Len(sub) - 1) = sub

EndsWith(s, sub) ==
    Len(s) >= Len(sub) /\ SubSeq(s, Len(s) - Len(sub) + 1, Len(s)) = sub

C17_SubsecondFree ==
    sent.type \in {"list", "listitem"} =>
        /\ EndsWith(sent.createdAt, "Z")
        /\ ~Contains(sent.createdAt, "+00:00")
        /\ ~Contains(sent.createdAt, ".")
        /\ Len(sent.createdAt) = Len("2026-11-05T08:48:40Z")

-----------------------------------------------------------------------------
(* C18: every run reaches a final state after finitely many remote calls,
   whatever the server answers, a server that goes on returning non-empty
   pages that carry a cursor included. *)

FinalPcs == {"done", "crashed"}

PcRank(p) ==
    CASE p = "idle" -> 0
      [] p = "step1" -> 1
      [] p = "step2" -> 2
      [] p = "step3" -> 3
      [] p = "step4" -> 4
      [] p = "step5" -> 5
      [] p = "end" -> 6
      [] OTHER -> 7

\* As stated. Against a server whose answer to a cursor is fixed, a run that
\* ends asks for no cursor twice: the second request would get the answer of
\* the first, a non-empty page with a cursor, and so would every one after.
C18_Original ==
    \A j, k \in 1..Len(requests) :
        j < k => requests[j].cursor # requests[k].cursor

\* the answer to the latest page request ends the listing
StopAnswer(r) == ~r.ok \/ r.items = <<>> \/ ~Truthy(r.next)

\* the remote calls that are not page requests
OtherCalls == Len(calls) - Len(requests)

\* As amended: the listing returns at the first answer that is an error, an
\* empty page or a page without a cursor; every step of a run issues a
\* remote call or moves on to a later stage; and apart from the page
\* requests a run issues at most two logins, one list create call and one
\* create call per member found.
C18_TerminatesOnceListingEnds ==
    [][/\ Len(calls') > Len(calls) \/ PcRank(pc') > PcRank(pc)
       /\ PcRank(pc') >= PcRank(pc)
       /\ (requests' # requests /\ StopAnswer(requests'[Len(requests')]))
             => PcRank(pc') > PcRank(pc)
       /\ OtherCalls' <= 3 + (IF TruthyList(members_to_add')
                              THEN Len(members_to_add'[1]) ELSE 0)]_vars

C18_Witness ==
    /\ pc = "done"
    /\ Len(requests) = 3
    /\ StopAnswer(requests[3])
    /\ Len(ItemCalls) = 3
    /\ OtherCalls = 6

-----------------------------------------------------------------------------
(* C19: the list is created whether or not members were found: once both
   logins and the listing have succeeded and step 4 is over, exactly one
   list create call has been issued; and a run over an empty source list
   whose create call returned ends with no error reported, the new list in
   the destination repository, and no membership create call. *)

IsError(e) == e.ev = "error"

DestLoggedIn == \E k \in 1..Len(calls) : IsLogin(calls[k], "dest") /\ calls[k].ok

C19_EmptyListStillCreated ==
    /\ (Returned /\ DestLoggedIn /\ PcRank(pc) > 4 /\ pc # "crashed")
          => Len(ListCalls) = 1
    /\ (/\ pc = "done"
        /\ members_to_add = Some(<<>>)
        /\ Len(ListCalls) = 1
        /\ ListCalls[1].ok)
          => /\ SelectSeq(ui, IsError) = <<>>
             /\ migration_ok
             /\ Len(repo) = 1
             /\ repo[1].collection = ListCollection
             /\ repo[1].uri = new_list_uri
             /\ ItemCalls = <<>>

C19_Witness ==
    /\ pc = "done"
    /\ members_to_add = Some(<<>>)
    /\ Len(ListCalls) = 1
    /\ ListCalls[1].ok
    /\ Len(repo) = 1
    /\ LastUi = NothingToAddWarning

-----------------------------------------------------------------------------
(* C20: the source account is read-only throughout a run: the source client
   is used for login and page requests only, never for a create call; the
   destination client is never used for a page request; and no record is
   added to the source list. *)

\* As stated: with the source account read-only, its repository gets no
\* record.
C20_Original ==
    /\ \A k \in DOMAIN calls :
          /\ calls[k].client = "source" => calls[k].op \in {"login", "get_list"}
          /\ calls[k].op = "get_list" => calls[k].client = "source"
    /\ \A k \in DOMAIN repo :
          /\ repo[k].list # SourceListUri
          /\ repo[k].repo # source_client.me

\* As amended: the source client is used for login and for page requests of
\* the source list only; every create call goes through the destination
\* client; no record created is a member of the source list or takes its
\* place; and the source account's repository gets a record only when the
\* operator gave the same account as source and as destination.
C20_SourceClientReadOnly ==
    /\ \A k \in DOMAIN calls :
          /\ calls[k].client = "source" => calls[k].op \in {"login", "get_list"}
          /\ calls[k].op = "get_list" =>
                calls[k].client = "source" /\ calls[k].list = SourceListUri
          /\ calls[k].op = "create_record" =>
                calls[k].client = "dest" /\ calls[k].list # SourceListUri
    /\ \A k \in DOMAIN repo :
          /\ repo[k].list # SourceListUri
          /\ repo[k].uri # SourceListUri
          /\ repo[k].repo = source_client.me => source_handle = dest_handle

C20_Witness ==
    /\ pc = "done"
    /\ source_handle # dest_handle
    /\ Len(GetListCalls) = 2
    /\ Len(repo) = 3
    /\ \E k \in DOMAIN ItemCalls : ~ItemCalls[k].ok

====
